---- MODULE Spec2Model ----
(***************************************************************************)
(* csv_reconcile.py: ingestion of CSV transaction exports into an SQLite   *)
(* store and pairwise reconciliation of a primary file against every other *)
(* configured file (reconcile_many).                                       *)
(*                                                                         *)
(* Text is a sequence of one-character strings.  An SQL NULL / Python None *)
(* is the empty tuple NULL and a present value v is the one-tuple <<v>>.   *)
(* Keep columns are pass-through payload and are not part of the model;    *)
(* rows inserted in the current batch count as rows of the table (the      *)
(* connection reads its own uncommitted inserts).                          *)
(***************************************************************************)
EXTENDS Integers, Sequences, FiniteSets, TLC

\* ------------------------------------------------------------------------
\* Characters and text helpers
\* ------------------------------------------------------------------------
NBSP == "NBSP"
BOM == "BOM"

\* The characters of the model in ascending byte order (SQLite BINARY
\* collation compares the UTF-8 bytes).
CharOrder ==
  << " ", "(", ")", "+", ",", "-", ".",
     "0", "1", "2", "3", "4", "5", "6", "7", "8", "9",
     "A", "B", "C", "D", "E", "F", "G", "H", "I", "J", "K", "L", "M",
     "N", "O", "P", "Q", "R", "S", "T", "U", "V", "W", "X", "Y", "Z",
     "_",
     "a", "b", "c", "d", "e", "f", "g", "h", "i", "j", "k", "l", "m",
     "n", "o", "p", "q", "r", "s", "t", "u", "v", "w", "x", "y", "z",
     NBSP, BOM >>

Code(c) == CHOOSE i \in 1..Len(CharOrder) : CharOrder[i] = c

Digits == {"0", "1", "2", "3", "4", "5", "6", "7", "8", "9"}
IsDigit(c) == c \in Digits
IsUpper(c) == Code(c) >= Code("A") /\ Code(c) <= Code("Z")
IsLower(c) == Code(c) >= Code("a") /\ Code(c) <= Code("z")
DigitVal(c) == Code(c) - Code("0")

\* str.isspace(): the no-break space is whitespace to str.strip().
IsSpace(c) == c \in {" ", NBSP}

RECURSIVE LStrip(_)
LStrip(s) == IF s # <<>> /\ IsSpace(Head(s)) THEN LStrip(Tail(s)) ELSE s

RECURSIVE RStrip(_)
RStrip(s) ==
  IF s # <<>> /\ IsSpace(s[Len(s)]) THEN RStrip(SubSeq(s, 1, Len(s) - 1)) ELSE s

\* str.strip()
Strip(s) == RStrip(LStrip(s))

\* str.casefold() on the characters of the model
CaseFold(s) ==
  [i \in 1..Len(s) |->
     IF IsUpper(s[i]) THEN CharOrder[Code(s[i]) + (Code("a") - Code("A"))]
     ELSE s[i]]

Count(s, c) == Cardinality({i \in 1..Len(s) : s[i] = c})
Remove(s, c) == SelectSeq(s, LAMBDA x : x # c)
Replace(s, c, d) == [i \in 1..Len(s) |-> IF s[i] = c THEN d ELSE s[i]]

\* memcmp order of two texts, the shorter first on a common prefix
RECURSIVE TextLess(_, _)
TextLess(a, b) ==
  IF b = <<>> THEN FALSE
  ELSE IF a = <<>> THEN TRUE
  ELSE IF Head(a) # Head(b) THEN Code(Head(a)) < Code(Head(b))
  ELSE TextLess(Tail(a), Tail(b))

NULL == <<>>
Some(v) == <<v>>

RECURSIVE Pow10(_)
Pow10(n) == IF n = 0 THEN 1 ELSE 10 * Pow10(n - 1)

RECURSIVE ToNat(_)
ToNat(ds) ==
  IF ds = <<>> THEN 0
  ELSE 10 * ToNat(SubSeq(ds, 1, Len(ds) - 1)) + DigitVal(ds[Len(ds)])

\* ------------------------------------------------------------------------
\* _sanitize_sql_ident
\* ------------------------------------------------------------------------
IsIdentChar(c) == IsDigit(c) \/ IsUpper(c) \/ IsLower(c) \/ c = "_"

RECURSIVE CollapseUnderscores(_)
CollapseUnderscores(s) ==
  IF Len(s) < 2 THEN s
  ELSE IF s[1] = "_" /\ s[2] = "_" THEN CollapseUnderscores(Tail(s))
  ELSE <<s[1]>> \o CollapseUnderscores(Tail(s))

RECURSIVE StripUnderscores(_)
StripUnderscores(s) ==
  IF s # <<>> /\ Head(s) = "_" THEN StripUnderscores(Tail(s))
  ELSE IF s # <<>> /\ s[Len(s)] = "_" THEN StripUnderscores(SubSeq(s, 1, Len(s) - 1))
  ELSE s

SanitizeCollapsed(s) ==
  IF s = <<>> THEN <<"c", "o", "l">>
  ELSE IF IsDigit(s[1]) THEN <<"c", "_">> \o s
  ELSE s

sanitize_sql_ident(name) ==
  LET t == Strip(name)
      u == [i \in 1..Len(t) |-> IF IsIdentChar(t[i]) THEN t[i] ELSE "_"]
  IN SanitizeCollapsed(StripUnderscores(CollapseUnderscores(u)))

\* ------------------------------------------------------------------------
\* _parse_amount_scaled
\* ------------------------------------------------------------------------
DegenerateTokens == { <<>>, <<"-">>, <<"+">>, <<".">>, <<"-", ".">>, <<"+", ".">> }

HasParens(s) == s # <<>> /\ s[1] = "(" /\ s[Len(s)] = ")"

Separators(s, decimal_comma) ==
  IF decimal_comma THEN Replace(Remove(s, "."), ",", ".")
  ELSE IF Count(s, ",") > 0 /\ Count(s, ".") > 0 THEN Remove(s, ",")
  ELSE IF Count(s, ",") > 0 THEN Replace(s, ",", ".")
  ELSE s

\* re.sub(r"[^0-9.\-+]", "", s)
DropJunk(s) == SelectSeq(s, LAMBDA c : IsDigit(c) \/ c \in {".", "-", "+"})

Unsigned(s) == IF s # <<>> /\ s[1] \in {"+", "-"} THEN Tail(s) ELSE s

\* The strings Decimal() accepts among those over digits, ".", "-", "+":
\* one optional leading sign, at most one point, at least one digit.
DecimalOk(s) ==
  LET b == Unsigned(s)
  IN /\ \A i \in 1..Len(b) : IsDigit(b[i]) \/ b[i] = "."
     /\ Count(b, ".") <= 1
     /\ \E i \in 1..Len(b) : IsDigit(b[i])

\* Decimal arithmetic, on digit texts: a Decimal is a sign, a coefficient
\* without leading zeros and an exponent; the default context keeps Prec
\* significant digits.
Prec == 28

Zeros(n) == [i \in 1..n |-> "0"]

RECURSIVE StripZeros(_)
StripZeros(ds) ==
  IF ds = <<>> THEN <<"0">>
  ELSE IF Len(ds) > 1 /\ Head(ds) = "0" THEN StripZeros(Tail(ds))
  ELSE ds

RECURSIVE Incr(_)
Incr(ds) ==
  IF ds = <<>> THEN <<"1">>
  ELSE LET front == SubSeq(ds, 1, Len(ds) - 1)
           last  == ds[Len(ds)]
       IN IF last = "9" THEN Incr(front) \o <<"0">>
          ELSE front \o <<CharOrder[Code(last) + 1]>>

IsZero(ds) == \A i \in 1..Len(ds) : ds[i] = "0"

\* The coefficient ds without its k low digits, rounded half up, or half even
\* when half_even (Decimal._round_half_up, Decimal._round_half_even).
DropDigits(ds, k, half_even) ==
  IF k > Len(ds) THEN <<"0">>
  ELSE LET kept  == SubSeq(ds, 1, Len(ds) - k)
           rest  == SubSeq(ds, Len(ds) - k + 1, Len(ds))
           exact == rest[1] = "5" /\ IsZero(Tail(rest))
           even  == kept = <<>> \/ DigitVal(kept[Len(kept)]) % 2 = 0
           up    == DigitVal(rest[1]) >= 5 /\ ~(half_even /\ exact /\ even)
       IN StripZeros(IF up THEN Incr(kept) ELSE kept)

\* Decimal(s) for a string that DecimalOk accepts
DecimalOf(s) ==
  LET b == Unsigned(s)
      f == IF Count(b, ".") = 0 THEN 0
           ELSE Len(b) - (CHOOSE i \in 1..Len(b) : b[i] = ".")
  IN [neg |-> s[1] = "-", digits |-> StripZeros(Remove(b, ".")), exp |-> 0 - f]

\* d * (Decimal(10) ** scale): the exact product, rounded half even to Prec
\* digits when it has more.
Times10(d, scale) ==
  LET exact == [neg    |-> d.neg,
                digits |-> IF IsZero(d.digits) \/ scale < 0 THEN d.digits
                           ELSE d.digits \o Zeros(scale),
                exp    |-> IF scale < 0 THEN d.exp + scale ELSE d.exp]
      k     == Len(exact.digits) - Prec
      r     == DropDigits(exact.digits, k, TRUE)
  IN IF k <= 0 THEN exact
     ELSE IF Len(r) > Prec
     THEN [neg |-> d.neg, digits |-> SubSeq(r, 1, Prec), exp |-> exact.exp + k + 1]
     ELSE [neg |-> d.neg, digits |-> r, exp |-> exact.exp + k]

\* The coefficient of d.quantize(Decimal("1"), rounding=ROUND_HALF_UP)
Rescaled(d) ==
  IF IsZero(d.digits) THEN <<"0">>
  ELSE IF d.exp >= 0 THEN d.digits \o Zeros(d.exp)
  ELSE DropDigits(d.digits, 0 - d.exp, FALSE)

\* quantize raises InvalidOperation when the result needs more than Prec digits
QuantizeOk(d) == Len(Rescaled(d)) <= Prec

\* The signed 64-bit range of an SQLite INTEGER, as magnitudes
Int64Max == <<"9", "2", "2", "3", "3", "7", "2", "0", "3", "6",
              "8", "5", "4", "7", "7", "5", "8", "0", "7">>
Int64MinMagnitude == Incr(Int64Max)

FitsInt64(neg, ds) ==
  LET lim == IF neg THEN Int64MinMagnitude ELSE Int64Max
  IN Len(ds) < Len(lim) \/ (Len(ds) = Len(lim) /\ ~TextLess(lim, ds))

\* A Python int outside the signed 64-bit range; its digits are not kept.
OutOfRange == <<0, 0>>

\* The Decimal that _parse_amount_scaled scales, for a raw cell that reaches
\* Decimal(s) and is accepted by it.
Cleaned(raw, decimal_comma) ==
  LET s0  == Strip(raw)
      neg == HasParens(s0)
      s1  == IF neg THEN Strip(SubSeq(s0, 2, Len(s0) - 1)) ELSE s0
      s2  == Remove(Remove(s1, NBSP), " ")
  IN [neg |-> neg, s |-> DropJunk(Separators(s2, decimal_comma))]

Parses(raw, decimal_comma) ==
  /\ Strip(raw) # <<>>
  /\ Cleaned(raw, decimal_comma).s \notin DegenerateTokens
  /\ DecimalOk(Cleaned(raw, decimal_comma).s)

Product(raw, scale, decimal_comma) ==
  LET c == Cleaned(raw, decimal_comma)
      d == DecimalOf(c.s)
  IN Times10([d EXCEPT !.neg = (d.neg # c.neg)], scale)

\* the quantize of line 108 raises InvalidOperation, which nothing catches
QuantizeRaises(raw, scale, decimal_comma) ==
  Parses(raw, decimal_comma) /\ ~QuantizeOk(Product(raw, scale, decimal_comma))

\* int(scaled) never raises for a finite Decimal: the result is an int of any
\* size
parse_amount_scaled(raw, scale, decimal_comma) ==
  IF ~Parses(raw, decimal_comma) THEN NULL
  ELSE LET p  == Product(raw, scale, decimal_comma)
           ds == Rescaled(p)
       IN IF ~FitsInt64(p.neg, ds) THEN OutOfRange
          ELSE Some(IF p.neg THEN 0 - ToNat(ds) ELSE ToNat(ds))

\* ------------------------------------------------------------------------
\* _status_norm
\* ------------------------------------------------------------------------
status_norm(raw) ==
  LET s == Strip(raw) IN IF s = <<>> THEN NULL ELSE Some(CaseFold(s))

\* ------------------------------------------------------------------------
\* Store: tables, duplicate index, report queries
\* ------------------------------------------------------------------------
TablePrefix == <<"t", "_", "_">>
DupsSuffix  == <<"_", "d", "u", "p", "s">>

\* t = f"t__{_sanitize_sql_ident(spec.name)}"
TableName(name) == TablePrefix \o sanitize_sql_ident(name)
\* f"{t}_dups"
DupsName(t) == t \o DupsSuffix

Range(q) == {q[i] : i \in 1..Len(q)}
Txids(rows) == {rows[i].txid : i \in 1..Len(rows)}
CountTxid(rows, x) == Cardinality({i \in 1..Len(rows) : rows[i].txid = x})

\* ORDER BY txid, rownum
RowLess(r, q) ==
  \/ TextLess(r.txid, q.txid)
  \/ r.txid = q.txid /\ r.rownum < q.rownum

RECURSIVE SortRows(_)
SortRows(S) ==
  IF S = {} THEN <<>>
  ELSE LET m == CHOOSE x \in S : \A y \in S : ~RowLess(y, x)
       IN <<m>> \o SortRows(S \ {m})

\* Mutant of DupTxids: HAVING COUNT(*) > 2
DupTxidsOverTwo(rows) == {x \in Txids(rows) : CountTxid(rows, x) > 2}

\* SELECT txid FROM t GROUP BY txid HAVING COUNT(*) > 1
DupTxids(rows) == {x \in Txids(rows) : CountTxid(rows, x) > 1}

RECURSIVE SortTexts(_)
SortTexts(S) ==
  IF S = {} THEN <<>>
  ELSE LET m == CHOOSE x \in S : \A y \in S : ~TextLess(y, x)
       IN <<m>> \o SortTexts(S \ {m})

\* CREATE TABLE "{t}_dups" AS SELECT txid ... : a table with the one column txid
DupsTable(rows) ==
  LET ids == SortTexts(DupTxids(rows))
  IN [shape |-> "dups", rows |-> [i \in 1..Len(ids) |-> [txid |-> ids[i]]]]

\* Mutant of UniqueRows: the duplicate index is not consulted
UniqueRowsAll(rows, dupids) == rows

\* SELECT * FROM t WHERE NOT EXISTS (SELECT 1 FROM t_dups d WHERE d.txid = t.txid)
UniqueRows(rows, dupids) == SelectSeq(rows, LAMBDA r : r.txid \notin dupids)

\* SELECT t.* FROM t WHERE EXISTS (SELECT 1 FROM t_dups d WHERE d.txid = t.txid)
\* ORDER BY t.txid, t.rownum
DuplicateRows(rows, dupids) ==
  SortRows({r \in Range(rows) : r.txid \in dupids})

\* Mutant of MissingRows: EXISTS for NOT EXISTS
MissingRowsExists(o, odups, b, bdups) ==
  LET u == UniqueRows(o, odups)
      k == Txids(UniqueRows(b, bdups))
  IN SortRows({r \in Range(u) : r.txid \in k})

\* Mutant of MissingRows: the reported side is not restricted to its unique rows
MissingRowsUnfiltered(o, odups, b, bdups) ==
  LET k == Txids(UniqueRows(b, bdups))
  IN SortRows({r \in Range(o) : r.txid \notin k})

\* Rows of unique(o) with no row of unique(b) of the same txid, ORDER BY txid
MissingRows(o, odups, b, bdups) ==
  LET u == UniqueRows(o, odups)
      k == Txids(UniqueRows(b, bdups))
  IN SortRows({r \in Range(u) : r.txid \notin k})

Abs(n) == IF n < 0 THEN 0 - n ELSE n
Coalesce(v, d) == IF v = NULL THEN d ELSE v[1]

AmountParseError(b, o) == b.amount_scaled = NULL \/ o.amount_scaled = NULL

\* Mutant of AmountMismatch: >= for >
AmountMismatchInclusive(b, o, tol) ==
  IF b.amount_scaled = NULL \/ o.amount_scaled = NULL THEN FALSE
  ELSE Abs(b.amount_scaled[1] - o.amount_scaled[1]) >= tol

AmountMismatch(b, o, tol) ==
  IF b.amount_scaled = NULL \/ o.amount_scaled = NULL THEN FALSE
  ELSE Abs(b.amount_scaled[1] - o.amount_scaled[1]) > tol

StatusMismatch(b, o) ==
  Coalesce(b.status_norm, <<>>) # Coalesce(o.status_norm, <<>>)

\* Mutant of MismatchType: the status branch ahead of the parse-error branch
MismatchTypeStatusFirst(parse_error, amount_mismatch, status_mismatch) ==
  IF amount_mismatch /\ status_mismatch THEN Some("amount_and_status_mismatch")
  ELSE IF status_mismatch THEN Some("status_mismatch")
  ELSE IF parse_error THEN Some("amount_parse_error")
  ELSE IF amount_mismatch THEN Some("amount_mismatch")
  ELSE NULL

\* CASE ... END AS mismatch_type
MismatchType(parse_error, amount_mismatch, status_mismatch) ==
  IF parse_error THEN Some("amount_parse_error")
  ELSE IF amount_mismatch /\ status_mismatch THEN Some("amount_and_status_mismatch")
  ELSE IF amount_mismatch THEN Some("amount_mismatch")
  ELSE IF status_mismatch THEN Some("status_mismatch")
  ELSE NULL

\* Mutant of AmountDiff: base minus other
AmountDiffBaseMinusOther(b, o) ==
  IF b.amount_scaled = NULL \/ o.amount_scaled = NULL THEN NULL
  ELSE Some(b.amount_scaled[1] - o.amount_scaled[1])

AmountDiff(b, o) ==
  IF b.amount_scaled = NULL \/ o.amount_scaled = NULL THEN NULL
  ELSE Some(o.amount_scaled[1] - b.amount_scaled[1])

JoinedRow(b, o, tol) ==
  [txid               |-> b.txid,
   mismatch_type      |-> MismatchType(AmountParseError(b, o),
                                       AmountMismatch(b, o, tol),
                                       StatusMismatch(b, o)),
   base_amount_raw    |-> b.amount_raw,
   base_amount_scaled |-> b.amount_scaled,
   other_amount_raw   |-> o.amount_raw,
   other_amount_scaled |-> o.amount_scaled,
   amount_diff_scaled |-> AmountDiff(b, o),
   base_status_raw    |-> b.status_raw,
   base_status_norm   |-> b.status_norm,
   other_status_raw   |-> o.status_raw,
   other_status_norm  |-> o.status_norm,
   base_rownum        |-> b.rownum,
   other_rownum       |-> o.rownum]

\* Mutant of JoinLess: shorter identifiers first, as numbers are ordered
JoinLessByLength(r, q) ==
  \/ Len(r.txid) < Len(q.txid)
  \/ Len(r.txid) = Len(q.txid) /\ TextLess(r.txid, q.txid)
  \/ r.txid = q.txid /\ r.base_rownum < q.base_rownum
  \/ r.txid = q.txid /\ r.base_rownum = q.base_rownum /\ r.other_rownum < q.other_rownum

\* ORDER BY txid (rows of one txid, which only a wrong duplicate index can
\* produce, are put in the order of their row numbers)
JoinLess(r, q) ==
  \/ TextLess(r.txid, q.txid)
  \/ r.txid = q.txid /\ r.base_rownum < q.base_rownum
  \/ r.txid = q.txid /\ r.base_rownum = q.base_rownum /\ r.other_rownum < q.other_rownum

RECURSIVE SortJoined(_)
SortJoined(S) ==
  IF S = {} THEN <<>>
  ELSE LET m == CHOOSE x \in S : \A y \in S : ~JoinLess(y, x)
       IN <<m>> \o SortJoined(S \ {m})

\* FROM b JOIN o ON o.txid = b.txid, over the unique rows of both sides
Joined(b, bdups, o, odups, tol) ==
  LET ub == UniqueRows(b, bdups)
      uo == UniqueRows(o, odups)
  IN {JoinedRow(ub[i], uo[j], tol) :
        <<i, j>> \in {p \in (1..Len(ub)) \X (1..Len(uo)) : ub[p[1]].txid = uo[p[2]].txid}}

\* ... WHERE mismatch_type IS NOT NULL ORDER BY txid
MismatchRows(b, bdups, o, odups, tol) ==
  LET rows == SortJoined({j \in Joined(b, bdups, o, odups, tol) : j.mismatch_type # NULL})
  IN [i \in 1..Len(rows) |-> [rows[i] EXCEPT !.mismatch_type = rows[i].mismatch_type[1]]]

\* The five reports of _export_pair_reports
PairReports(b, bdups, o, odups, tol) ==
  [duplicates_base  |-> DuplicateRows(b, bdups),
   duplicates_other |-> DuplicateRows(o, odups),
   missing_in_base  |-> MissingRows(o, odups, b, bdups),
   missing_in_other |-> MissingRows(b, bdups, o, odups),
   mismatches       |-> MismatchRows(b, bdups, o, odups, tol)]

\* SUM(amount_scaled): NULL when no row of the group has an amount
RECURSIVE SumPresent(_)
SumPresent(rows) ==
  IF rows = <<>> THEN 0
  ELSE (IF Head(rows).amount_scaled = NULL THEN 0 ELSE Head(rows).amount_scaled[1])
       + SumPresent(Tail(rows))

\* Mutant of SqlSum: COALESCE(amount_scaled, 0) inside the SUM
SqlSumCoalesced(rows) == Some(SumPresent(rows))

SqlSum(rows) ==
  IF \A i \in 1..Len(rows) : rows[i].amount_scaled = NULL THEN NULL
  ELSE Some(SumPresent(rows))

StatusKey(r) == Coalesce(r.status_norm, <<>>)

\* _export_status_totals
StatusTotals(rows) ==
  LET u    == UniqueRows(rows, DupTxids(rows))
      keys == SortTexts({StatusKey(u[i]) : i \in 1..Len(u)})
  IN [k \in 1..Len(keys) |->
        LET g == SelectSeq(u, LAMBDA r : StatusKey(r) = keys[k])
        IN [status_norm       |-> keys[k],
            tx_count          |-> Len(g),
            amount_scaled_sum |-> SqlSum(g)]]

\* ------------------------------------------------------------------------
\* _read_header, _resolve_index, _resolve_indices
\* ------------------------------------------------------------------------
RECURSIVE LStripBom(_)
LStripBom(s) == IF s # <<>> /\ Head(s) = BOM THEN LStripBom(Tail(s)) ELSE s

\* the cells of the first line, the byte order mark taken off the first one,
\* each trimmed
read_header(cells) ==
  [i \in 1..Len(cells) |-> Strip(IF i = 1 THEN LStripBom(cells[i]) ELSE cells[i])]

\* ColumnRef(name=n) and ColumnRef(index=i, index_base=base)
ByName(n) == [name |-> Some(n), index |-> NULL, index_base |-> 0]
ByIndex(i, base) == [name |-> NULL, index |-> Some(i), index_base |-> base]

Has(keys, k) == \E i \in 1..Len(keys) : keys[i] = k

\* {h: i for i, h in enumerate(header)}[k]: the last of equal keys wins
LastIndex(keys, k) ==
  (CHOOSE i \in 1..Len(keys) :
     keys[i] = k /\ \A j \in (i + 1)..Len(keys) : keys[j] # k) - 1

Folded(header) == [i \in 1..Len(header) |-> CaseFold(Strip(header[i]))]

\* The ValueError that _resolve_index raises, "" when it returns
ResolveError(header, ref) ==
  IF ref.index # NULL
  THEN IF ref.index_base \notin {0, 1} THEN "index_base"
       ELSE IF ref.index[1] - (IF ref.index_base = 1 THEN 1 ELSE 0) < 0 THEN "index"
       ELSE ""
  ELSE LET name == Strip(Coalesce(ref.name, <<>>))
       IN IF name = <<>> THEN "reference"
          ELSE IF Has(header, name) \/ Has(Folded(header), CaseFold(Strip(name))) THEN ""
          ELSE "column"

resolve_index(header, ref) ==
  IF ref.index # NULL THEN ref.index[1] - (IF ref.index_base = 1 THEN 1 ELSE 0)
  ELSE LET name == Strip(Coalesce(ref.name, <<>>))
       IN IF Has(header, name) THEN LastIndex(header, name)
          ELSE LastIndex(Folded(header), CaseFold(Strip(name)))

\* a keep column is looked up by its name, then by its trimmed casefolded name
KeepError(header, keep_cols) ==
  IF \E i \in 1..Len(keep_cols) :
       /\ keep_cols[i] # <<>>
       /\ ~Has(header, keep_cols[i])
       /\ ~Has(Folded(header), CaseFold(Strip(keep_cols[i])))
  THEN "column" ELSE ""

\* The first error of _resolve_indices, "" when it returns
ResolveIndicesError(header, columns) ==
  IF ResolveError(header, columns.id_col) # "" THEN ResolveError(header, columns.id_col)
  ELSE IF ResolveError(header, columns.amount_col) # ""
  THEN ResolveError(header, columns.amount_col)
  ELSE IF ResolveError(header, columns.status_col) # ""
  THEN ResolveError(header, columns.status_col)
  ELSE KeepError(header, columns.keep_cols)

\* ------------------------------------------------------------------------
\* _parse_config
\* ------------------------------------------------------------------------
DigitText(n) == <<CharOrder[Code("0") + n]>>

\* name = str(fr.get("name") or fr.get("label") or f"file{i+1}").strip()
ParsedName(c, i) ==
  IF c.files[i].name = <<>> THEN <<"f", "i", "l", "e">> \o DigitText(i)
  ELSE Strip(c.files[i].name)

Names(c) == [i \in 1..Len(c.files) |-> ParsedName(c, i)]

\* if not primary: primary = specs[0].name
Primary(c) == IF Strip(c.primary) = <<>> THEN Names(c)[1] ELSE Strip(c.primary)

\* The conditions under which _parse_config raises
ConfigError(c) ==
  \/ c.files = <<>>
  \/ \E i \in 1..Len(c.files) : ParsedName(c, i) = <<>>
  \/ Cardinality(Range(Names(c))) # Len(c.files)
  \/ Primary(c) \notin Range(Names(c))
  \/ c.amount_scale < 0
  \/ c.amount_scale > 18
  \/ c.amount_tolerance < 0

\* The ConfigSpec that _parse_config returns
Parsed(c) ==
  [c EXCEPT !.files = [i \in 1..Len(c.files) |-> [c.files[i] EXCEPT !.name = ParsedName(c, i)]],
            !.primary = Primary(c)]

\* ------------------------------------------------------------------------
\* Inputs: configurations and the rows the CSV readers can deliver
\* ------------------------------------------------------------------------
MaxIdRows     == 4
MaxPairRows   == 1
MaxTotalsRows == 3
MaxDefectRows == 2
MaxNameRows   == 1
MaxTol        == 1
MaxAmountRows == 2
MaxE2ERows    == 2
MaxOrderRows  == 2
MaxRunRows    == 1

Header3 == << <<"i">>, <<"a">>, <<"s">> >>

Columns3 ==
  [id_col |-> ByName(<<"i">>), amount_col |-> ByName(<<"a">>),
   status_col |-> ByName(<<"s">>), keep_cols |-> <<>>]

\* A file entry of the configuration, with the file its path names: whether it
\* exists and its header line (NULL for a file without any line).
File(name) ==
  [name |-> name, exists |-> TRUE, header |-> Some(Header3),
   decimal_comma |-> FALSE, amount_scale |-> 0, columns |-> Columns3]

Config(names, primary, tol) ==
  [files |-> [i \in 1..Len(names) |-> File(names[i])],
   primary |-> primary, amount_scale |-> 0, amount_tolerance |-> tol]

FileP    == <<"p">>
FileB    == <<"b">>
FileC    == <<"c">>
FileB1   == <<"b", "-", "1">>
FileB_1  == <<"b", "_", "1">>
FileA    == <<"a">>
FileADups == <<"a", "_", "d", "u", "p", "s">>

Rows3(ids, amounts, statuses) ==
  {<<i, a, s>> : <<i, a, s>> \in ids \X amounts \X statuses}

\* identifiers only: duplicates, missing, ordering
InputIds ==
  [rows |-> Rows3({<<"A">>, <<"B">>, <<"C">>}, {<<"1">>}, {<<"p">>}), max |-> MaxIdRows]

\* one identifier, amounts and statuses: the classification chain
InputChain ==
  [rows |-> Rows3({<<"A">>}, {<<"x">>, <<"1">>, <<"2">>},
                  {<<>>, <<"P">>, <<"p">>, <<"q">>}),
   max |-> MaxPairRows]

\* one identifier, amounts 0 .. MaxTol + 1: the tolerance boundary
InputTol ==
  [rows |-> Rows3({<<"A">>}, {DigitText(n) : n \in 0..(MaxTol + 1)}, {<<"p">>}),
   max |-> MaxPairRows]

\* one identifier, blank and unparseable amount cells
InputOrigin ==
  [rows |-> Rows3({<<"A">>}, {<<>>, <<" ">>, <<"x">>, <<"1">>}, {<<"p">>}),
   max |-> MaxPairRows]

\* status groups with absent amounts and duplicated identifiers
InputTotals ==
  [rows |-> Rows3({<<"A">>, <<"B">>}, {<<>>, <<"2">>}, {<<>>, <<"P">>, <<"p">>}),
   max |-> MaxTotalsRows]

\* row defects: empty and blank identifiers, short rows, bad amounts
InputDefect ==
  [rows |-> Rows3({<<>>, <<" ">>, <<"A">>, <<" ", "A">>},
                  {<<>>, <<" ">>, <<"x">>, <<"1">>}, {<<"p">>})
            \cup { <<>>, << <<"A">> >> },
   max |-> MaxDefectRows]

InputNames ==
  [rows |-> Rows3({<<"A">>, <<"B">>}, {<<"1">>}, {<<"p">>}), max |-> MaxNameRows]

\* amounts at the rounding ties, beyond the Prec digits of the Decimal context
\* and beyond the signed 64-bit range
Nines(n) == [i \in 1..n |-> "9"]

AmountTexts ==
  { <<"1", ".", "0", "0", "5">>, <<"1", ".", "0", "0", "4">>,
    <<"0", ".", "5">>, <<"-", "0", ".", "5">>, <<"2", ".", "5">>, <<"0", ".", "4">>,
    <<"0", ".", "4">> \o Nines(Prec - 1) \o <<"5">>,
    <<"0", ".", "4">> \o Nines(Prec - 1),
    Incr(Int64Max), <<"-">> \o Incr(Int64MinMagnitude),
    <<"1">> \o Zeros(Prec), <<"x">> }

InputAmounts ==
  [rows |-> Rows3({<<"A">>}, AmountTexts, {<<"p">>}), max |-> MaxAmountRows]

\* the rows of the end-to-end scenario
RowT1Base  == << <<"T", "1">>, <<"1", "0", "0", ".", "0", "0">>, <<"P", "a", "i", "d">> >>
RowT2Base  == << <<"T", "2">>, <<"5", "0", ",", "0", "0">>,
                 <<"P", "e", "n", "d", "i", "n", "g">> >>
RowT1Other == << <<"T", "1">>, <<"1", "0", "0", ".", "0", "1">>, <<"p", "a", "i", "d">> >>
RowT3Other == << <<"T", "3">>, <<"1", "0", ".", "0", "0">>, <<"P", "a", "i", "d">> >>

InputE2E ==
  [rows |-> {RowT1Base, RowT2Base, RowT1Other, RowT3Other}, max |-> MaxE2ERows]

\* identifiers whose ordinal and numeric orders differ
InputOrder ==
  [rows |-> Rows3({<<"1", "0">>, <<"9">>}, {<<"1">>, <<"2">>}, {<<"p">>}),
   max |-> MaxOrderRows]

InputRuns ==
  [rows |-> Rows3({<<"A">>, <<"B">>}, {<<"1">>}, {<<"p">>}), max |-> MaxRunRows]

PB == Config(<<FileP, FileB>>, FileP, 0)

\* Configurations that _parse_config rejects or accepts: scales, tolerance,
\* names and primary
ConfigCases ==
       {[PB EXCEPT !.amount_scale = s] : s \in {0 - 1, 18, 19}}
  \cup {[PB EXCEPT !.amount_tolerance = 0 - 1]}
  \cup {[PB EXCEPT !.primary = q] : q \in {FileC, <<>>, <<" ", "b">>}}
  \cup {Config(n, FileP, 0) : n \in { <<>>, <<FileP, FileP>>, <<FileP, <<" ", "p">> >>,
                                      <<FileP, <<>> >>, <<FileP, <<" ">> >> }}

\* Column references by index and index base
IndexColumns(base) ==
  [id_col |-> ByIndex(base, base), amount_col |-> ByIndex(base + 1, base),
   status_col |-> ByIndex(base + 2, base), keep_cols |-> <<>>]

\* Configurations that _parse_config accepts and whose second file carries the
\* defect: a scale per file, an index base, a missing file, an empty file, a
\* column that the header lacks
FileCases ==
       {[PB EXCEPT !.files[2].amount_scale = s] : s \in {0 - 1, 19}}
  \cup {[PB EXCEPT !.files[2].columns = IndexColumns(base)] : base \in 0..2}
  \cup {[PB EXCEPT !.files[2].columns.id_col = ByIndex(0, 1)]}
  \cup {[PB EXCEPT !.files[k].exists = FALSE] : k \in 1..2}
  \cup {[PB EXCEPT !.files[2].header = NULL]}
  \cup {[PB EXCEPT !.files[2].columns.amount_col = ByName(n)] :
          n \in { <<"x">>, <<" ">>, <<"A", " ">> }}
  \cup {[PB EXCEPT !.files[2].columns.keep_cols = k] :
          k \in { << <<"k">> >>, << <<>>, <<"I">> >> }}
  \cup {[PB EXCEPT !.files[2].header =
           Some(<< <<BOM, "I", " ">>, <<"a">>, <<"s">>, <<" ", "a">> >>)]}

\* The end-to-end scenario: scale 2, tolerance 0, the base file read with and
\* without the decimal comma
E2ECases ==
  {[PB EXCEPT !.amount_scale = 2, !.files[1].amount_scale = 2,
              !.files[2].amount_scale = 2, !.files[1].decimal_comma = dc] :
     dc \in BOOLEAN}

\* Configurations whose store tables are pairwise distinct
Scenarios ==
       {[cfg |-> Config(<<FileP, FileB>>, FileP, 0), input |-> InputIds]}
  \cup {[cfg |-> Config(<<FileP, FileB>>, FileP, t), input |-> InputChain] : t \in 0..MaxTol}
  \cup {[cfg |-> Config(<<FileP, FileB>>, q, t), input |-> InputTol] :
          <<q, t>> \in {FileP, FileB} \X (0..MaxTol)}
  \cup {[cfg |-> Config(<<FileP, FileB, FileC>>, FileP, 0), input |-> InputOrigin]}
  \cup {[cfg |-> Config(<<FileP>>, FileP, 0), input |-> i] : i \in {InputTotals, InputDefect}}
  \cup {[cfg |-> c, input |-> InputNames] : c \in ConfigCases}
  \cup {[cfg |-> c, input |-> InputTol] : c \in FileCases}
  \cup {[cfg |-> c, input |-> InputE2E] : c \in E2ECases}
  \cup {[cfg |-> PB, input |-> InputOrder]}

\* Configurations of unique file names, some of which share a store table
NameLists ==
  { <<FileP, FileB1, FileB_1>>, <<FileP, FileB_1, FileB1>>, <<FileB1, FileP, FileB_1>>,
    <<FileB1, FileB_1, FileP>>, <<FileP, FileB, FileC>>,
    <<FileA, FileADups>>, <<FileADups, FileA>> }

NameScenarios ==
  {[cfg |-> Config(n, n[k], 0), input |-> InputNames] :
     <<n, k>> \in {q \in NameLists \X (1..3) : q[2] <= Len(q[1])}}

\* One file, scales 0 and 2, the amounts of AmountTexts
AmountScenarios ==
  {[cfg |-> [Config(<<FileP>>, FileP, 0) EXCEPT !.amount_scale = s,
                                                  !.files[1].amount_scale = s],
    input |-> InputAmounts] : s \in {0, 2}}

\* The runs that share one output directory
RunScenarios ==
  {[cfg |-> c, input |-> InputRuns] :
     c \in { PB, Config(<<FileP, FileC>>, FileP, 0), Config(<<FileB, FileP>>, FileB, 0),
             [PB EXCEPT !.files[2].exists = FALSE] }}

\* ------------------------------------------------------------------------
\* State
\* ------------------------------------------------------------------------
VARIABLES
  cfg,             \* the configuration: as written, then as parsed
  input,           \* what the CSV readers can deliver
  pc,              \* position in main / reconcile_many
  error,           \* the exception that ended the run, "" when none
  fi,              \* index in cfg.files of the loop in progress
  id_i,            \* column indices of the import in progress
  amount_i,
  status_i,
  row,             \* the row just read by the import loop
  rows_total,      \* counters of the import in progress
  rows_bad_id,
  rows_bad_amount,
  db,              \* the SQLite store: table name -> table
  table_by_name,
  meta_by_name,
  opened,          \* names of the input files opened by this run
  delivered,       \* per file name, the data rows its reader delivered
  recordset,       \* per file name, the rows committed by its import
  status_totals,   \* status_totals__{name}.csv written by this run
  pairs,           \* {primary}__vs__{other}/ reports of this run, by other name
  summary,         \* summary.json written by this run
  prev             \* the store as the run found it

vars == << cfg, input, pc, error, fi, id_i, amount_i, status_i, row, rows_total,
           rows_bad_id, rows_bad_amount, db, table_by_name, meta_by_name, opened,
           delivered, recordset, status_totals, pairs, summary, prev >>

EmptyMap == [x \in {} |-> x]
NoRow == << <<"n", "o", "n", "e">> >>

\* The start of a run
Start(S) ==
  /\ \E sc \in S : cfg = sc.cfg /\ input = sc.input
  /\ pc = "config"
  /\ error = ""
  /\ fi = 1
  /\ id_i = 0
  /\ amount_i = 0
  /\ status_i = 0
  /\ row = NoRow
  /\ rows_total = 0
  /\ rows_bad_id = 0
  /\ rows_bad_amount = 0
  /\ table_by_name = EmptyMap
  /\ meta_by_name = EmptyMap
  /\ opened = {}
  /\ delivered = EmptyMap
  /\ recordset = EmptyMap
  /\ status_totals = EmptyMap
  /\ pairs = EmptyMap
  /\ summary = NULL

\* A run into a new output directory
InitWith(S) == Start(S) /\ db = EmptyMap /\ prev = EmptyMap

Init == InitWith(Scenarios)
InitNames == InitWith(NameScenarios)
InitAmounts == InitWith(AmountScenarios)
InitRuns == InitWith(RunScenarios)

\* ------------------------------------------------------------------------
\* main: cfg = _parse_config(cfg_path)
\* ------------------------------------------------------------------------
ParseConfig ==
  /\ pc = "config"
  /\ IF ConfigError(cfg)
     THEN /\ pc' = "failed"
          /\ error' = "config"
          /\ UNCHANGED cfg
     ELSE /\ pc' = "open"
          /\ cfg' = Parsed(cfg)
          /\ UNCHANGED error
  /\ UNCHANGED << input, fi, id_i, amount_i, status_i, row, rows_total, rows_bad_id,
                  rows_bad_amount, db, table_by_name, meta_by_name, opened, delivered,
                  recordset, status_totals, pairs, summary, prev >>

\* ------------------------------------------------------------------------
\* _import_csv_into_table
\* ------------------------------------------------------------------------
Cell(r, i) == IF i < Len(r) THEN r[i + 1] ELSE <<>>

\* Mutant of BadId: the identifier cell is tested before trimming
BadIdUntrimmed(r, i) == i >= Len(r) \/ r[i + 1] = <<>>

BadId(r, i) == i >= Len(r) \/ Strip(r[i + 1]) = <<>>

Record(r, rownum, spec, ii, ai, si) ==
  [txid          |-> Strip(r[ii + 1]),
   amount_raw    |-> Cell(r, ai),
   amount_scaled |-> parse_amount_scaled(Cell(r, ai), spec.amount_scale, spec.decimal_comma),
   status_raw    |-> Cell(r, si),
   status_norm   |-> status_norm(Cell(r, si)),
   rownum        |-> rownum]

\* if amount_raw and amount_scaled is None
BadAmount(rec) == rec.amount_raw # <<>> /\ rec.amount_scaled = NULL

CurSpec == cfg.files[fi]
CurTable == table_by_name[CurSpec.name]

\* Mutant of create_table: CREATE TABLE IF NOT EXISTS, without the DROP
create_table_if_missing(store, t) ==
  IF t \in DOMAIN store THEN store ELSE (t :> [shape |-> "tx", rows |-> <<>>]) @@ store

\* DROP TABLE IF EXISTS "{table}"; CREATE TABLE "{table}" (...).  The names of
\* the indexes hold "__txid" and never equal a table name.
create_table(store, t) == (t :> [shape |-> "tx", rows |-> <<>>]) @@ store

\* con.close() with the transaction of the import open: its rows are rolled
\* back, the table stays
rollback(store, t) == [store EXCEPT ![t].rows = <<>>]

\* reconcile_many: next file of the import loop, up to the first data row:
\* the path is tested, the header read, the columns resolved, the table made
BeginImport ==
  /\ pc = "open"
  /\ LET spec   == CurSpec
         t      == TableName(spec.name)
         header == read_header(spec.header[1])
         e      == IF ~spec.exists THEN "file_not_found"
                   ELSE IF spec.header = NULL THEN "empty_csv"
                   ELSE ResolveIndicesError(header, spec.columns)
     IN /\ opened' = IF spec.exists THEN opened \cup {spec.name} ELSE opened
        /\ table_by_name' = IF spec.exists THEN (spec.name :> t) @@ table_by_name
                            ELSE table_by_name
        /\ IF e # ""
           THEN /\ pc' = "failed"
                /\ error' = e
                /\ UNCHANGED << db, id_i, amount_i, status_i, delivered >>
           ELSE /\ pc' = "rows"
                /\ db' = create_table(db, t)
                /\ id_i' = resolve_index(header, spec.columns.id_col)
                /\ amount_i' = resolve_index(header, spec.columns.amount_col)
                /\ status_i' = resolve_index(header, spec.columns.status_col)
                /\ delivered' = (spec.name :> <<>>) @@ delivered
                /\ UNCHANGED error
  /\ rows_total' = 0
  /\ rows_bad_id' = 0
  /\ rows_bad_amount' = 0
  /\ UNCHANGED << cfg, input, fi, row, meta_by_name, recordset, status_totals, pairs,
                  summary, prev >>

\* one iteration of "for rownum, row in enumerate(reader, start=2)"
ImportRow ==
  /\ pc = "rows"
  /\ rows_total < input.max
  /\ \E r \in input.rows :
       /\ row' = r
       /\ rows_total' = rows_total + 1
       /\ delivered' = [delivered EXCEPT ![CurSpec.name] = Append(@, r)]
       /\ IF BadId(r, id_i)
          THEN /\ rows_bad_id' = rows_bad_id + 1
               /\ UNCHANGED << rows_bad_amount, db, pc, error >>
          ELSE IF QuantizeRaises(Cell(r, amount_i), CurSpec.amount_scale,
                                 CurSpec.decimal_comma)
          THEN /\ pc' = "failed"
               /\ error' = "quantize"
               /\ db' = rollback(db, CurTable)
               /\ UNCHANGED << rows_bad_id, rows_bad_amount >>
          ELSE LET rec == Record(r, rows_total + 2, CurSpec, id_i, amount_i, status_i)
               IN /\ rows_bad_amount' = rows_bad_amount + (IF BadAmount(rec) THEN 1 ELSE 0)
                  /\ db' = [db EXCEPT ![CurTable].rows = Append(@, rec)]
                  /\ UNCHANGED << rows_bad_id, pc, error >>
  /\ UNCHANGED << cfg, input, fi, id_i, amount_i, status_i, table_by_name, meta_by_name,
                  opened, recordset, status_totals, pairs, summary, prev >>

\* executemany raises OverflowError on an int that SQLite cannot hold
Unbindable(rows) == \E i \in 1..Len(rows) : rows[i].amount_scaled = OutOfRange

\* end of the reader: the batch is inserted (it is shorter than batch_size),
\* COMMIT, the returned statistics; then the file's duplicate index and its
\* status totals (reconcile_many)
FinishFile ==
  /\ pc = "rows"
  /\ LET name == CurSpec.name
         t    == CurTable
         rows == db[t].rows
     IN IF Unbindable(rows)
        THEN /\ pc' = "failed"
             /\ error' = "overflow"
             /\ db' = rollback(db, t)
             /\ UNCHANGED << fi, meta_by_name, recordset, status_totals >>
        ELSE /\ meta_by_name' = (name :> [rows_total |-> rows_total,
                                          rows_bad_id |-> rows_bad_id,
                                          rows_bad_amount |-> rows_bad_amount]) @@ meta_by_name
             /\ recordset' = (name :> rows) @@ recordset
             /\ db' = (DupsName(t) :> DupsTable(rows)) @@ db
             /\ status_totals' = (name :> StatusTotals(rows)) @@ status_totals
             /\ IF fi < Len(cfg.files)
                THEN fi' = fi + 1 /\ pc' = "open"
                ELSE fi' = 1 /\ pc' = "pairs"
             /\ UNCHANGED error
  /\ row' = NoRow
  /\ rows_total' = 0
  /\ rows_bad_id' = 0
  /\ rows_bad_amount' = 0
  /\ UNCHANGED << cfg, input, id_i, amount_i, status_i, table_by_name, opened, delivered,
                  pairs, summary, prev >>

\* ------------------------------------------------------------------------
\* reconcile_many: the loop over the pairs (primary, other)
\* ------------------------------------------------------------------------
BaseTable == table_by_name[cfg.primary]

\* the queries of _export_pair_reports read t.rownum of both tables
Readable(t) == db[t].shape = "tx"

StoredReports(bt, ot) ==
  PairReports(db[bt].rows, Txids(db[DupsName(bt)].rows),
              db[ot].rows, Txids(db[DupsName(ot)].rows), cfg.amount_tolerance)

PairStep ==
  /\ pc = "pairs"
  /\ fi <= Len(cfg.files)
  /\ IF CurSpec.name = cfg.primary
     THEN /\ fi' = fi + 1
          /\ UNCHANGED << pc, error, pairs >>
     ELSE IF Readable(BaseTable) /\ Readable(CurTable)
     THEN /\ pairs' = (CurSpec.name :> StoredReports(BaseTable, CurTable)) @@ pairs
          /\ fi' = fi + 1
          /\ UNCHANGED << pc, error >>
     ELSE /\ pc' = "failed"
          /\ error' = "sql"
          /\ UNCHANGED << fi, pairs >>
  /\ UNCHANGED << cfg, input, id_i, amount_i, status_i, row, rows_total, rows_bad_id,
                  rows_bad_amount, db, table_by_name, meta_by_name, opened, delivered,
                  recordset, status_totals, summary, prev >>

ReportCounts(rep) ==
  [duplicates_base_rows  |-> Len(rep.duplicates_base),
   duplicates_other_rows |-> Len(rep.duplicates_other),
   missing_in_base       |-> Len(rep.missing_in_base),
   missing_in_other      |-> Len(rep.missing_in_other),
   mismatches            |-> Len(rep.mismatches)]

WriteSummary ==
  /\ pc = "pairs"
  /\ fi > Len(cfg.files)
  /\ summary' = Some([primary |-> cfg.primary,
                      files   |-> meta_by_name,
                      pairs   |-> [o \in DOMAIN pairs |-> ReportCounts(pairs[o])]])
  /\ pc' = "done"
  /\ UNCHANGED << cfg, input, error, fi, id_i, amount_i, status_i, row, rows_total,
                  rows_bad_id, rows_bad_amount, db, table_by_name, meta_by_name, opened,
                  delivered, recordset, status_totals, pairs, prev >>

\* A later run of the program into the same output directory: reconcile.sqlite
\* is opened as the earlier runs left it.
Rerun ==
  /\ pc \in {"done", "failed"}
  /\ \E sc \in RunScenarios : cfg' = sc.cfg /\ input' = sc.input
  /\ pc' = "config"
  /\ error' = ""
  /\ fi' = 1
  /\ id_i' = 0
  /\ amount_i' = 0
  /\ status_i' = 0
  /\ row' = NoRow
  /\ rows_total' = 0
  /\ rows_bad_id' = 0
  /\ rows_bad_amount' = 0
  /\ table_by_name' = EmptyMap
  /\ meta_by_name' = EmptyMap
  /\ opened' = {}
  /\ delivered' = EmptyMap
  /\ recordset' = EmptyMap
  /\ status_totals' = EmptyMap
  /\ pairs' = EmptyMap
  /\ summary' = NULL
  /\ prev' = db
  /\ UNCHANGED db

Next == ParseConfig \/ BeginImport \/ ImportRow \/ FinishFile \/ PairStep \/ WriteSummary
NextRuns == Next \/ Rerun

Spec == Init /\ [][Next]_vars
SpecNames == InitNames /\ [][Next]_vars
SpecAmounts == InitAmounts /\ [][Next]_vars
SpecRuns == InitRuns /\ [][NextRuns]_vars

\* ------------------------------------------------------------------------
\* Properties
\* ------------------------------------------------------------------------
Others == DOMAIN pairs
BaseRS == recordset[cfg.primary]
Tol == cfg.amount_tolerance

Occurrences(rs, x) == Cardinality({i \in 1..Len(rs) : rs[i].txid = x})
IdsOf(rs) == {rs[i].txid : i \in 1..Len(rs)}
UniqueIds(rs) == {x \in IdsOf(rs) : Occurrences(rs, x) = 1}
RepeatedIds(rs) == {x \in IdsOf(rs) : Occurrences(rs, x) > 1}
RecordOf(rs, x) == rs[CHOOSE i \in 1..Len(rs) : rs[i].txid = x]
NoRepeats(q) == Cardinality(Range(q)) = Len(q)

\* C1: an identifier that occurs more than once in the base or in the other
\* file of a pair appears in none of missing_in_base, missing_in_other and the
\* mismatch report of that pair.
C1_DuplicatedNeverMissing ==
  \A o \in Others :
    \A x \in RepeatedIds(BaseRS) \cup RepeatedIds(recordset[o]) :
      /\ x \notin IdsOf(pairs[o].missing_in_base)
      /\ x \notin IdsOf(pairs[o].missing_in_other)
      /\ x \notin IdsOf(pairs[o].mismatches)

\* The reference chain of C2, on the two records of a joined pair.
StatusesDiffer(b, o) == b.status_norm # o.status_norm
BeyondTolerance(b, o) ==
  LET d == b.amount_scaled[1] - o.amount_scaled[1]
  IN d > Tol \/ (0 - d) > Tol
ReferenceClass(b, o) ==
  IF b.amount_scaled = NULL \/ o.amount_scaled = NULL THEN "amount_parse_error"
  ELSE IF BeyondTolerance(b, o) /\ StatusesDiffer(b, o) THEN "amount_and_status_mismatch"
  ELSE IF BeyondTolerance(b, o) THEN "amount_mismatch"
  ELSE IF StatusesDiffer(b, o) THEN "status_mismatch"
  ELSE "none"

ReportedClasses(o, x) ==
  {pairs[o].mismatches[i].mismatch_type :
     i \in {k \in 1..Len(pairs[o].mismatches) : pairs[o].mismatches[k].txid = x}}

JoinedIds(o) == UniqueIds(BaseRS) \cap UniqueIds(recordset[o])

\* C2: for every identifier unique on both sides of a pair, the mismatch report
\* holds the class of the reference chain (parse error, then amount and status,
\* then amount, then status), and no row when the chain ends in no mismatch.
C2_ClassificationChain ==
  \A o \in Others : \A x \in JoinedIds(o) :
    LET c == ReferenceClass(RecordOf(BaseRS, x), RecordOf(recordset[o], x))
    IN /\ ReportedClasses(o, x) = (IF c = "none" THEN {} ELSE {c})
       /\ Cardinality({i \in 1..Len(pairs[o].mismatches) :
                         pairs[o].mismatches[i].txid = x}) <= 1

\* C2 witness: a joined pair with an absent amount and differing statuses is
\* reported as amount_parse_error.
C2_Witness ==
  \E o \in Others : \E i \in 1..Len(pairs[o].mismatches) :
    LET m == pairs[o].mismatches[i]
    IN /\ m.mismatch_type = "amount_parse_error"
       /\ m.base_status_norm # m.other_status_norm
       /\ m.txid \in JoinedIds(o)

AmountClasses == {"amount_mismatch", "amount_and_status_mismatch"}

\* C3: for a joined pair with both amounts present, the pair is reported with an
\* amount mismatch iff |base - other| > amount_tolerance; a difference equal to
\* the tolerance is no mismatch, a difference of tolerance + 1 is one.
C3_ToleranceBoundary ==
  \A o \in Others : \A x \in JoinedIds(o) :
    LET b == RecordOf(BaseRS, x)
        r == RecordOf(recordset[o], x)
        d == r.amount_scaled[1] - b.amount_scaled[1]
    IN (b.amount_scaled # NULL /\ r.amount_scaled # NULL) =>
         /\ (ReportedClasses(o, x) \cap AmountClasses # {}) <=> (d > Tol \/ d < 0 - Tol)
         /\ (d = Tol \/ d = 0 - Tol) => ReportedClasses(o, x) \cap AmountClasses = {}
         /\ (d = Tol + 1 \/ d = 0 - (Tol + 1)) => ReportedClasses(o, x) \cap AmountClasses # {}

\* C3 witness: with a positive tolerance, a pair whose difference is
\* -(tolerance + 1) is reported as an amount mismatch.
C3_Witness ==
  /\ Tol > 0
  /\ \E o \in Others : \E i \in 1..Len(pairs[o].mismatches) :
       /\ pairs[o].mismatches[i].mismatch_type = "amount_mismatch"
       /\ pairs[o].mismatches[i].amount_diff_scaled = Some(0 - (Tol + 1))

Disjoint(o) == IdsOf(BaseRS) \cap IdsOf(recordset[o]) = {}
NoOverlap(o) == IdsOf(pairs[o].missing_in_base) \cap IdsOf(pairs[o].missing_in_other) = {}

\* C4 as stated: with disjoint identifier sets every identifier of base is in
\* missing_in_other and every identifier of other is in missing_in_base; the
\* two reports never share an identifier.
C4_DisjointAllMissing ==
  \A o \in Others :
    /\ Disjoint(o) => /\ IdsOf(BaseRS) \subseteq IdsOf(pairs[o].missing_in_other)
                      /\ IdsOf(recordset[o]) \subseteq IdsOf(pairs[o].missing_in_base)
    /\ NoOverlap(o)

\* C4 amended: with disjoint identifier sets every identifier occurring exactly
\* once in base is in missing_in_other and every identifier occurring exactly
\* once in other is in missing_in_base; the two reports never share an
\* identifier.
C4_DisjointUniqueMissing ==
  \A o \in Others :
    /\ Disjoint(o) => /\ UniqueIds(BaseRS) \subseteq IdsOf(pairs[o].missing_in_other)
                      /\ UniqueIds(recordset[o]) \subseteq IdsOf(pairs[o].missing_in_base)
    /\ NoOverlap(o)

\* C4 witness: disjoint files, a unique identifier of base reported in
\* missing_in_other while other holds a repeated identifier.
C4_Witness ==
  \E o \in Others :
    /\ Disjoint(o)
    /\ UniqueIds(BaseRS) # {}
    /\ RepeatedIds(recordset[o]) # {}
    /\ UniqueIds(recordset[o]) # {}
    /\ IdsOf(pairs[o].missing_in_other) = UniqueIds(BaseRS)

UniqueRecords(rs) == {r \in Range(rs) : Occurrences(rs, r.txid) = 1}

\* C5 as stated: missing_in_other is the identifiers of unique(other) without
\* counterpart in unique(base), and missing_in_base the symmetric set.
C5_MissingAsStated ==
  \A o \in Others :
    /\ IdsOf(pairs[o].missing_in_other) = UniqueIds(recordset[o]) \ UniqueIds(BaseRS)
    /\ IdsOf(pairs[o].missing_in_base) = UniqueIds(BaseRS) \ UniqueIds(recordset[o])

\* C5 amended: missing_in_other is exactly the records of unique(base) whose
\* identifier has no counterpart in unique(other), and missing_in_base exactly
\* the records of unique(other) without counterpart in unique(base).
C5_MissingSets ==
  \A o \in Others :
    /\ Range(pairs[o].missing_in_other) =
         {r \in UniqueRecords(BaseRS) : r.txid \notin UniqueIds(recordset[o])}
    /\ Range(pairs[o].missing_in_base) =
         {r \in UniqueRecords(recordset[o]) : r.txid \notin UniqueIds(BaseRS)}
    /\ NoRepeats(pairs[o].missing_in_other)
    /\ NoRepeats(pairs[o].missing_in_base)

\* C5 witness: an identifier only in base is in missing_in_other, one only in
\* other is in missing_in_base, and a third one is joined.
C5_Witness ==
  \E o \in Others :
    /\ \E x \in IdsOf(pairs[o].missing_in_other) : x \notin IdsOf(recordset[o])
    /\ \E y \in IdsOf(pairs[o].missing_in_base) : y \notin IdsOf(BaseRS)
    /\ JoinedIds(o) # {}

Ordered(q) ==
  \A i, j \in 1..Len(q) :
    i < j => \/ TextLess(q[i].txid, q[j].txid)
             \/ q[i].txid = q[j].txid /\ q[i].rownum < q[j].rownum

DuplicatesOk(report, rs) ==
  /\ Range(report) = {r \in Range(rs) : Occurrences(rs, r.txid) > 1}
  /\ NoRepeats(report)
  /\ Ordered(report)

\* C6: each side's duplicates report holds exactly the ingested rows whose
\* identifier occurs more than once in that file, each once, ordered by
\* identifier and then by row number.
C6_DuplicatesReport ==
  \A o \in Others :
    /\ DuplicatesOk(pairs[o].duplicates_base, BaseRS)
    /\ DuplicatesOk(pairs[o].duplicates_other, recordset[o])

\* C6 witness: two repeated identifiers whose rows interleave in the file are
\* reported grouped, the later-read identifier first.
C6_Witness ==
  \E o \in Others :
    LET d == pairs[o].duplicates_base
    IN /\ Len(d) = 4
       /\ d[1].txid = d[2].txid
       /\ d[3].txid = d[4].txid
       /\ d[1].txid # d[3].txid
       /\ d[3].rownum < d[1].rownum
       /\ d[1].rownum < d[4].rownum
       /\ UniqueIds(recordset[o]) # {}

GroupKey(r) == IF r.status_norm = NULL THEN <<>> ELSE r.status_norm[1]
Group(rs, k) == {r \in UniqueRecords(rs) : GroupKey(r) = k}

RECURSIVE SumOf(_)
SumOf(S) ==
  IF S = {} THEN 0
  ELSE LET r == CHOOSE x \in S : TRUE IN r.amount_scaled[1] + SumOf(S \ {r})

RECURSIVE CountSum(_)
CountSum(q) == IF q = <<>> THEN 0 ELSE Head(q).tx_count + CountSum(Tail(q))

\* C7: the status totals of a file hold one row per normalized status (absent
\* as the empty text) of its unique records; tx_count is the size of the group;
\* the sum adds the present amounts only and is absent, not zero, when no
\* record of the group has an amount; the counts add up to the number of unique
\* records.
C7_StatusTotals ==
  \A n \in DOMAIN status_totals :
    LET st == status_totals[n]
        rs == recordset[n]
    IN /\ {st[i].status_norm : i \in 1..Len(st)} = {GroupKey(r) : r \in UniqueRecords(rs)}
       /\ Cardinality({st[i].status_norm : i \in 1..Len(st)}) = Len(st)
       /\ \A i \in 1..Len(st) :
            LET g == Group(rs, st[i].status_norm)
                present == {r \in g : r.amount_scaled # NULL}
            IN /\ st[i].tx_count = Cardinality(g)
               /\ st[i].amount_scaled_sum =
                    (IF present = {} THEN NULL ELSE Some(SumOf(present)))
       /\ CountSum(st) = Cardinality(UniqueRecords(rs))

\* C7 witness: a group of two unique records, one of them without amount,
\* counted 2 and summed over the one present amount.
C7_Witness ==
  \E n \in DOMAIN status_totals :
    LET st == status_totals[n]
    IN /\ \E i \in 1..Len(st) :
            /\ st[i].tx_count = 2
            /\ st[i].amount_scaled_sum = Some(2)
       /\ RepeatedIds(recordset[n]) = {}
       /\ Len(recordset[n]) = 2

\* C8: with more than two files, the reports of every pair (primary, B) are
\* those computed from the records of the primary file and of B alone.
C8_PairIndependent ==
  Len(cfg.files) > 2 =>
    \A o \in Others :
      pairs[o] = PairReports(BaseRS, RepeatedIds(BaseRS),
                             recordset[o], RepeatedIds(recordset[o]), Tol)

\* The two row policies of the import loop, on the step that reads row'.
C9_Step ==
  LET r    == row'
      old  == db[CurTable].rows
      new  == db'[CurTable].rows
  IN IF id_i >= Len(r) \/ Strip(r[id_i + 1]) = <<>>
     THEN /\ rows_bad_id' = rows_bad_id + 1
          /\ rows_bad_amount' = rows_bad_amount
          /\ new = old
     ELSE /\ rows_bad_id' = rows_bad_id
          /\ Len(new) = Len(old) + 1
          /\ SubSeq(new, 1, Len(old)) = old
          /\ LET rec  == new[Len(new)]
                 cell == IF amount_i < Len(r) THEN r[amount_i + 1] ELSE <<>>
             IN /\ rec.txid = Strip(r[id_i + 1])
                /\ rec.amount_raw = cell
                /\ rec.rownum = rows_total' + 1
                /\ rows_bad_amount' =
                     (IF cell # <<>> /\ rec.amount_scaled = NULL
                      THEN rows_bad_amount + 1 ELSE rows_bad_amount)

C9_Counts ==
  /\ pc = "rows" => /\ rows_total = rows_bad_id + Len(db[CurTable].rows)
                    /\ rows_bad_amount <= Len(db[CurTable].rows)
  /\ \A n \in DOMAIN meta_by_name :
       /\ meta_by_name[n].rows_total = meta_by_name[n].rows_bad_id + Len(recordset[n])
       /\ meta_by_name[n].rows_bad_amount <= Len(recordset[n])

\* C9: every data row either has a missing or blank identifier, is counted in
\* rows_bad_id and yields no record, or yields exactly one record and is counted
\* in rows_bad_amount iff its amount cell is non-empty and its scaled amount
\* absent; so rows_total = rows_bad_id + records and rows_bad_amount <= records.
C9_RowPolicies ==
  /\ []C9_Counts
  /\ [][rows_total' = rows_total + 1 => C9_Step]_vars

\* C9 witness: a file of two rows, one dropped for its identifier and one kept
\* with an unparseable amount.
C9_Witness ==
  \E n \in DOMAIN meta_by_name :
    /\ meta_by_name[n].rows_total = 2
    /\ meta_by_name[n].rows_bad_id = 1
    /\ meta_by_name[n].rows_bad_amount = 1
    /\ Len(recordset[n]) = 1
    /\ recordset[n][1].amount_scaled = NULL

AllMismatches == UNION {Range(pairs[o].mismatches) : o \in Others}
AbsentSides(m) ==
  {c \in {<<m.base_amount_raw, m.base_amount_scaled>>,
          <<m.other_amount_raw, m.other_amount_scaled>>} : c[2] = NULL}
FromEmptyCell(m) == AbsentSides(m) # {} /\ \A c \in AbsentSides(m) : c[1] = <<>>
FromUnparseableCell(m) == \E c \in AbsentSides(m) : c[1] # <<>>

\* C10: a joined pair whose absent amount comes from an empty amount cell never
\* gets the classification of a joined pair whose absent amount comes from a
\* non-empty, unparseable cell; an empty amount cell is not counted in
\* rows_bad_amount.
C10_BlankDistinguished ==
  /\ \A m1, m2 \in AllMismatches :
       (FromEmptyCell(m1) /\ FromUnparseableCell(m2)) => m1.mismatch_type # m2.mismatch_type
  /\ \A n \in DOMAIN meta_by_name :
       meta_by_name[n].rows_bad_amount <=
         Cardinality({i \in 1..Len(recordset[n]) : recordset[n][i].amount_raw # <<>>})

SpecOf(n) == cfg.files[CHOOSE i \in 1..Len(cfg.files) : cfg.files[i].name = n]
NoOutput == status_totals = EmptyMap /\ pairs = EmptyMap /\ summary = NULL

\* C11: a syntactically valid amount whose scaled value does not fit the signed
\* 64-bit range is treated as absent: the row is kept with an absent amount and
\* no error ends the import of the file or the run.
C11_OverflowAbsent ==
  /\ error \notin {"overflow", "quantize"}
  /\ pc = "rows" =>
       \A i \in 1..Len(db[CurTable].rows) : db[CurTable].rows[i].amount_scaled # OutOfRange

\* A cell that is a plain decimal numeral: digits with at most one point after
\* an optional minus sign.
PlainDecimal(raw) ==
  LET b == IF raw # <<>> /\ raw[1] = "-" THEN Tail(raw) ELSE raw
  IN /\ \A i \in 1..Len(b) : b[i] \in Digits \cup {"."}
     /\ Cardinality({i \in 1..Len(b) : b[i] = "."}) <= 1
     /\ \E i \in 1..Len(b) : b[i] \in Digits

\* The magnitude of the integer nearest to v * 10^s, a tie going to the larger
\* magnitude, computed from all the digits of v.
NearestMagnitude(raw, s) ==
  LET b == IF raw[1] = "-" THEN Tail(raw) ELSE raw
      c == SelectSeq(b, LAMBDA x : x # ".")
      f == IF \E i \in 1..Len(b) : b[i] = "."
           THEN Len(b) - (CHOOSE i \in 1..Len(b) : b[i] = ".") ELSE 0
      k == f - s
      padded == Zeros(k) \o c
      whole  == SubSeq(padded, 1, Len(padded) - k)
  IN IF k <= 0 THEN StripZeros(c \o Zeros(0 - k))
     ELSE StripZeros(IF DigitVal(padded[Len(padded) - k + 1]) >= 5 THEN Incr(whole) ELSE whole)

NearestInt(raw, s) ==
  IF raw[1] = "-" THEN 0 - ToNat(NearestMagnitude(raw, s)) ELSE ToNat(NearestMagnitude(raw, s))

\* C12: the scaled amount of a decimal numeral v at scale s is the integer
\* nearest to v * 10^s, and the one of larger magnitude at a tie (1.005 at
\* scale 2 gives 101, 0.5 at scale 0 gives 1), whatever the number of digits
\* of v.
C12_ExactHalfUp ==
  \A n \in DOMAIN recordset : \A i \in 1..Len(recordset[n]) :
    LET raw == recordset[n][i].amount_raw
        s   == SpecOf(n).amount_scale
    IN (PlainDecimal(raw) /\ ~SpecOf(n).decimal_comma /\ Len(NearestMagnitude(raw, s)) <= 9) =>
         recordset[n][i].amount_scaled = Some(NearestInt(raw, s))

InvalidIndexBase(f) ==
  \E ref \in {f.columns.id_col, f.columns.amount_col, f.columns.status_col} :
    ref.index # NULL /\ ref.index_base \notin {0, 1}

InvalidConfig ==
  \/ cfg.amount_scale \notin 0..18
  \/ cfg.amount_tolerance < 0
  \/ \E i \in 1..Len(cfg.files) : cfg.files[i].amount_scale \notin 0..18
  \/ \E i \in 1..Len(cfg.files) : InvalidIndexBase(cfg.files[i])
  \/ \E i, j \in 1..Len(cfg.files) : i # j /\ Strip(cfg.files[i].name) = Strip(cfg.files[j].name)
  \/ /\ Strip(cfg.primary) # <<>>
     /\ \A i \in 1..Len(cfg.files) : Strip(cfg.files[i].name) # Strip(cfg.primary)

\* C13: with an amount scale outside 0..18 (global or of one file), a negative
\* tolerance, an index base outside {0, 1}, two files of one name or a primary
\* that names no file, the run stops at the configuration: no input file is
\* opened, no table made and no output written.
C13_ConfigErrorsFirst ==
  InvalidConfig => /\ pc \in {"config", "failed"}
                   /\ opened = {}
                   /\ db = EmptyMap
                   /\ NoOutput

\* C14: when a configured file does not exist, no file is opened or ingested
\* and no status totals or report is written, wherever the missing file stands
\* in the list.
C14_MissingFileFirst ==
  (\E i \in 1..Len(cfg.files) : ~cfg.files[i].exists) =>
     /\ opened = {}
     /\ db = EmptyMap
     /\ recordset = EmptyMap
     /\ NoOutput

\* The header cells a column name is looked up in, and the lookup.
HeaderNames(f) ==
  LET h == f.header[1]
  IN {Strip(IF i = 1 THEN LStripBom(h[i]) ELSE h[i]) : i \in 1..Len(h)}
Found(f, name) ==
  \E h \in HeaderNames(f) : h = name \/ CaseFold(h) = CaseFold(Strip(name))
Unresolvable(f) ==
  /\ f.exists
  /\ f.header # NULL
  /\ \/ \E ref \in {f.columns.id_col, f.columns.amount_col, f.columns.status_col} :
          ref.index = NULL /\ ~Found(f, Strip(ref.name[1]))
     \/ \E k \in 1..Len(f.columns.keep_cols) :
          f.columns.keep_cols[k] # <<>> /\ ~Found(f, f.columns.keep_cols[k])

\* C15: when a column reference of a configured file matches no column of its
\* header, the run writes no output at all: no status totals, no pair report
\* and no summary, for any file.
C15_NoPartialOutput ==
  (\E i \in 1..Len(cfg.files) : Unresolvable(cfg.files[i])) => NoOutput

\* What a run makes of the rows its own readers delivered
OwnRecords(n) ==
  LET spec == SpecOf(n)
      h    == read_header(spec.header[1])
      ii   == resolve_index(h, spec.columns.id_col)
      ai   == resolve_index(h, spec.columns.amount_col)
      si   == resolve_index(h, spec.columns.status_col)
      raw  == delivered[n]
      all  == [i \in 1..Len(raw) |->
                 IF BadId(raw[i], ii) THEN [txid |-> <<>>]
                 ELSE Record(raw[i], i + 1, spec, ii, ai, si)]
  IN SelectSeq(all, LAMBDA r : r.txid # <<>>)
OwnCounts(n) ==
  [rows_total      |-> Len(delivered[n]),
   rows_bad_id     |-> Len(delivered[n]) - Len(OwnRecords(n)),
   rows_bad_amount |-> Len(SelectSeq(OwnRecords(n), BadAmount))]
OwnReports(o) ==
  PairReports(OwnRecords(cfg.primary), DupTxids(OwnRecords(cfg.primary)),
              OwnRecords(o), DupTxids(OwnRecords(o)), cfg.amount_tolerance)

\* C16: whatever earlier runs left in the store, the records, status totals,
\* pair reports and summary counts of a run are functions of the rows and the
\* configuration of that run alone (so two runs of the same inputs give the
\* same), and a run fails only for a file of its own that is missing.
C16_OwnInputsOnly ==
  /\ \A n \in DOMAIN recordset : recordset[n] = OwnRecords(n)
  /\ \A n \in DOMAIN status_totals : status_totals[n] = StatusTotals(OwnRecords(n))
  /\ \A o \in DOMAIN pairs : pairs[o] = OwnReports(o)
  /\ summary # NULL =>
       /\ summary[1].files = [n \in DOMAIN recordset |-> OwnCounts(n)]
       /\ summary[1].pairs = [o \in DOMAIN pairs |-> ReportCounts(OwnReports(o))]
  /\ pc = "failed" => \E i \in 1..Len(cfg.files) : ~cfg.files[i].exists

\* a finished run that found, in the store, other rows under its base table
\* and a table of a file it does not name
C16_Witness ==
  /\ pc = "done"
  /\ pairs # EmptyMap
  /\ BaseTable \in DOMAIN prev
  /\ prev[BaseTable].rows # <<>>
  /\ prev[BaseTable].rows # recordset[cfg.primary]
  /\ \E t \in DOMAIN prev : prev[t].shape = "tx" /\ \A n \in DOMAIN table_by_name : table_by_name[n] # t

\* The run of the end-to-end scenario: base T1 "100.00" Paid, T2 "50,00" Pending
\* read with the decimal comma, other T1 "100.01" paid, T3 "10.00" Paid, scale 2,
\* tolerance 0
E2ERun ==
  /\ pc = "done"
  /\ Len(cfg.files) = 2
  /\ cfg.files[1].decimal_comma /\ ~cfg.files[2].decimal_comma
  /\ cfg.files[1].amount_scale = 2 /\ cfg.files[2].amount_scale = 2
  /\ cfg.amount_tolerance = 0
  /\ cfg.primary = cfg.files[1].name
  /\ delivered[cfg.files[1].name] = <<RowT1Base, RowT2Base>>
  /\ delivered[cfg.files[2].name] = <<RowT1Other, RowT3Other>>

E2EReport == pairs[cfg.files[2].name]
E2EIds(q) == [i \in 1..Len(q) |-> q[i].txid]
E2EResult(diff, paid_sum) ==
  /\ Len(E2EReport.mismatches) = 1
  /\ E2EReport.mismatches[1].txid = <<"T", "1">>
  /\ E2EReport.mismatches[1].mismatch_type = "amount_mismatch"
  /\ E2EReport.mismatches[1].amount_diff_scaled = Some(diff)
  /\ E2EIds(E2EReport.missing_in_base) = << <<"T", "3">> >>
  /\ E2EIds(E2EReport.missing_in_other) = << <<"T", "2">> >>
  /\ status_totals[cfg.primary] =
       << [status_norm |-> <<"p", "a", "i", "d">>, tx_count |-> 1,
           amount_scaled_sum |-> Some(paid_sum)],
          [status_norm |-> <<"p", "e", "n", "d", "i", "n", "g">>, tx_count |-> 1,
           amount_scaled_sum |-> Some(5000)] >>

\* C17 as stated: the end-to-end run reports T1 as an amount mismatch of
\* difference 1, T3 missing in base, T2 missing in other, and the base totals
\* paid 1 / 10000 and pending 1 / 5000.
C17_AsStated == E2ERun => E2EResult(1, 10000)

\* C17: the end-to-end run reports T1 as an amount mismatch of difference
\* -989999 (the decimal comma makes the point of "100.00" a grouping mark, so
\* the base amount is 1000000), T3 missing in base, T2 missing in other, and
\* the base totals paid 1 / 1000000 and pending 1 / 5000.
C17_EndToEnd == E2ERun => E2EResult(-989999, 1000000)

C17_Witness == E2ERun

\* ordinal comparison of two texts: the first differing character decides, a
\* proper prefix comes first
OrdinalBefore(a, b) ==
  \E k \in 1..(Len(b)) :
    /\ \A i \in 1..(k - 1) : i <= Len(a) /\ a[i] = b[i]
    /\ \/ k = Len(a) + 1
       \/ k <= Len(a) /\ Code(a[k]) < Code(b[k])

\* C18: in every mismatch report the identifiers are strictly ascending in
\* ordinal order ("10" before "9"), so no identifier has two rows, and each row
\* pairs the one base record and the one other record of its identifier.
C18_FunctionalOrdered ==
  \A o \in DOMAIN pairs :
    LET m == pairs[o].mismatches
    IN /\ \A i, j \in 1..Len(m) : i < j => OrdinalBefore(m[i].txid, m[j].txid)
       /\ \A i \in 1..Len(m) :
            /\ m[i].txid \in UniqueIds(BaseRS) \cap UniqueIds(recordset[o])
            /\ m[i].base_rownum = RecordOf(BaseRS, m[i].txid).rownum
            /\ m[i].other_rownum = RecordOf(recordset[o], m[i].txid).rownum

C18_Witness ==
  \E o \in DOMAIN pairs : E2EIds(pairs[o].mismatches) = << <<"1", "0">>, <<"9">> >>

\* C19: the records of an ingested file stay in the store as they were
\* committed, through the ingestion of later files, the duplicate indexes and
\* the pair reports.
C19_RecordSetImmutable ==
  \A n \in DOMAIN recordset :
    /\ db[table_by_name[n]].shape = "tx"
    /\ db[table_by_name[n]].rows = recordset[n]

Listed(report, r) == Cardinality({i \in 1..Len(report) : report[i] = r})
\* the classes of record r of one side: in the side's duplicates report, in the
\* report of records missing on the opposite side, joined
ClassesOf(r, own, opposite, duplicates, missing, mismatches) ==
  {c \in {"duplicate", "missing", "joined"} :
     \/ c = "duplicate" /\ Listed(duplicates, r) > 0
     \/ c = "missing" /\ Listed(missing, r) > 0
     \/ c = "joined" /\ r.txid \in UniqueIds(own) \cap UniqueIds(opposite)}
ExpectedClass(r, own, opposite) ==
  IF Occurrences(own, r.txid) > 1 THEN "duplicate"
  ELSE IF r.txid \notin UniqueIds(opposite) THEN "missing"
  ELSE "joined"
Partitioned(own, opposite, duplicates, missing, mismatches) ==
  \A i \in 1..Len(own) :
    /\ ClassesOf(own[i], own, opposite, duplicates, missing, mismatches)
         = {ExpectedClass(own[i], own, opposite)}
    /\ Listed(duplicates, own[i]) + Listed(missing, own[i]) <= 1
    /\ Cardinality({k \in 1..Len(mismatches) : mismatches[k].txid = own[i].txid})
         <= (IF ExpectedClass(own[i], own, opposite) = "joined" THEN 1 ELSE 0)

\* C20: for every pair, each record of the base file is in exactly one class:
\* listed once in duplicates_base (identifier repeated in base), listed once in
\* missing_in_other (identifier unique in base, not unique in other), or joined
\* to the one other record of its identifier (at most one mismatch row); and
\* the same for each record of the other file with duplicates_other and
\* missing_in_base.
C20_ThreeClasses ==
  \A o \in DOMAIN pairs :
    /\ Partitioned(BaseRS, recordset[o], pairs[o].duplicates_base,
                   pairs[o].missing_in_other, pairs[o].mismatches)
    /\ Partitioned(recordset[o], BaseRS, pairs[o].duplicates_other,
                   pairs[o].missing_in_base, pairs[o].mismatches)

C20_Witness ==
  \E o \in DOMAIN pairs :
    /\ {ExpectedClass(BaseRS[i], BaseRS, recordset[o]) : i \in 1..Len(BaseRS)}
         = {"duplicate", "missing", "joined"}
    /\ pairs[o].duplicates_base # <<>>
    /\ pairs[o].missing_in_other # <<>>

====
